---- MODULE Spec2Model ----
(***************************************************************************)
(* Alert ingestion -> queueing -> embedding -> persistence pipeline of     *)
(* packages/workers.                                                       *)
(*                                                                         *)
(* Two workers are modelled:                                               *)
(*   - ingest_worker.py: IngestWorker in 'both' mode, i.e. the alert       *)
(*     processor (RedisQueue.consume_alerts + IngestWorker.process_alert)  *)
(*     and the embedding processor (RedisQueue.consume_embedding_tasks +   *)
(*     IngestWorker.process_embedding_task) as two coroutines of one event *)
(*     loop.  Specification: Spec.                                         *)
(*   - embedding_worker.py: EmbeddingTask.process_queue, the batch worker. *)
(*     Specification: SpecBatch.                                           *)
(*                                                                         *)
(* Redis lists are sequences whose index 1 is the head (left end): LPUSH   *)
(* prepends, RPUSH appends, BRPOP removes the last element.                *)
(* The alerts table is a sequence of rows in insertion order.  An embedding*)
(* vector is represented by its length.  A dict key that is missing is the *)
(* value Absent.                                                           *)
(* The RedisQueue attributes alert_queue / embedding_queue are read as     *)
(* the keys "alerts_queue" / "embedding_queue" that publish_alert and      *)
(* publish_embedding_task name literally.                                  *)
(***************************************************************************)
EXTENDS Integers, Sequences, FiniteSets, TLC

\* ------------------------------------------------------------------ bounds
\* number of publish calls made by producers in one behaviour
MaxPublish == 2
\* number of HINCRBY failures the broker shows in one behaviour
MaxStatsFaults == 1
\* EmbeddingTask.batch_size (EMBEDDING_BATCH_SIZE / --batch-size) in the model
BatchSize == 2
\* number of alerts a producer sends the batch worker when more than one
\* batch is to be filled
MaxQueued == 3

\* ---------------------------------------------------------- program values
\* "dimensions": 1024 of the request and the length test of generate_embedding
EMBEDDING_DIM == 1024
\* stop_after_attempt(3) of the tenacity decorators
MAX_ATTEMPTS == 3

Absent == "<absent>"
NoVec == -1
NoItem == [n |-> 0]
NoLink ==
    [db |-> "none", redis |-> "none", connected |-> FALSE, db_up |-> TRUE,
     redis_up |-> TRUE, ops |-> 0, drops |-> 0, recovered |-> {},
     last |-> [client |-> "none", before |-> "none", up |-> TRUE,
               ok |-> TRUE]]
NoCheck ==
    [client |-> "none", key |-> "none", before |-> "none", raised |-> FALSE,
     deleted |-> FALSE, after |-> "none"]

Ids == {"a1", "a2"}
Contents == {Absent, "", " ", "flood"}
Descriptions == {Absent, "quake"}
\* the alert processor reads no description
IngestDescriptions == {Absent}
Severities == {4}
Serials == 1..(IF MaxQueued > MaxPublish THEN MaxQueued ELSE MaxPublish)

\* an inbound alert as a producer hands it over; n is a history label (the
\* number of the publish call), not a field of the JSON object
AlertData(n, descriptions) ==
    [n : {n}, json : {"object"}, id : Ids, content : Contents,
     description : descriptions, severity : Severities]

\* a queue message that is valid JSON but no object (`[]`, `null`, a string)
NonObject(n) ==
    [n |-> n, json |-> "array", id |-> Absent, content |-> Absent,
     description |-> Absent, severity |-> Absent]

\* a queue message that is no JSON text at all
Invalid(n) ==
    [n |-> n, json |-> "invalid", id |-> Absent, content |-> Absent,
     description |-> Absent, severity |-> Absent]

\* responses of the embedding provider: 200 with a vector of some length,
\* a non-200 status, or a transport error / timeout raised by aiohttp
VecLens == {EMBEDDING_DIM, 512, 0}
Responses ==
    [kind : {"ok"}, len : VecLens]
        \cup [kind : {"http_error", "client_error", "timeout"}, len : {NoVec}]

VARIABLES
    alerts_queue,      \* Redis list "alerts_queue"
    embedding_queue,   \* Redis list "embedding_queue"
    rows,              \* table alerts
    uniqueKey,         \* whether the schema declares alert_uid unique
    stats,             \* IngestWorker.stats
    stats_queue,       \* Redis hash "stats_queue"
    pc,                \* position of the alert and the embedding processor
    cur,               \* the message each processor is working on
    nPublished,        \* publish calls made so far
    statsFaults,       \* HINCRBY failures so far
    sent,              \* the alert handed to each publish call
    published,         \* labels of the publish calls that returned an id
    calls,             \* provider calls made per label
    events,            \* what the worker did for each label
    disaster_alerts,   \* Redis list "disaster:alerts"
    disaster_stats,    \* Redis hash "disaster:stats"
    bpc,               \* position of EmbeddingTask.process_queue
    polls,             \* BRPOPs done in the current cycle
    alerts,            \* the list `alerts` of the current cycle
    tasks,             \* the process_alert coroutines under gather
    bstats,            \* EmbeddingTask.stats
    popped,            \* labels of the alerts consume_alerts popped, in order
    runs,              \* the attempts of each publish_alert call
    strays,            \* queue keys that hold a value that is no list
    checked,           \* the last call of a queue check and what it did
    dbcall,            \* the last call of a TiDBConnection operation
    norm_in,           \* an alert as it arrives, with the aliased fields
    norm_out,          \* what process_alert made of norm_in
    posts,             \* the provider's answers to each get_embedding call
    exit_status,       \* how the worker process ended
    link,              \* the connections of TiDBConnection and RedisQueue
    taken              \* the messages BRPOP handed each worker process

vars == <<alerts_queue, embedding_queue, rows, uniqueKey, stats, stats_queue,
          pc, cur, nPublished, statsFaults, sent, published, calls, events,
          disaster_alerts, disaster_stats, bpc, polls, alerts, tasks, bstats,
          popped, runs, strays, checked, dbcall, norm_in, norm_out, posts,
          exit_status, link, taken>>

producerVars == <<nPublished, statsFaults, sent, published, stats_queue, runs>>
ingestVars == <<alerts_queue, embedding_queue, stats, pc, cur, statsFaults,
                stats_queue, runs>>
batchVars == <<disaster_alerts, disaster_stats, bpc, polls, alerts, tasks,
               bstats>>
normVars == <<norm_in, norm_out>>
auxVars == <<strays, checked, normVars>>
histVars == <<posts, exit_status, link, taken>>

Last(s) == s[Len(s)]
\* a pop that hands the message out and leaves it on the list
FrontKept(s) == s
Front(s) == SubSeq(s, 1, Len(s) - 1)
lpush(q, m) == <<m>> \o q
rpush(q, m) == Append(q, m)

Note(ev, n, e) == [ev EXCEPT ![n] = @ \cup {e}]

\* ------------------------------------------------------- TiDBConnection
\* column default of embedding_status / status for a freshly inserted row
DefaultStatus == "pending"

NewRow(alert_id, payload) ==
    [alert_uid |-> alert_id, description |-> payload.content,
     severity |-> payload.severity, embedding_status |-> DefaultStatus,
     status |-> DefaultStatus, embedding |-> NoVec]

\* what a call may meet: a live connection or a dead one that connect()
\* restores or not, and a statement that executes or raises mysql Error
DbFaults ==
    {"alive", "alive_error", "reconnected", "reconnected_error",
     "reconnect_failed"}

\* _ensure_connection: connect() is called once for a dead connection, and
\* its result returned
Dead(fault) == fault \in {"reconnected", "reconnected_error", "reconnect_failed"}
ensure_connection(fault) == fault # "reconnect_failed"
Connects(fault) == IF Dead(fault) THEN 1 ELSE 0

\* cursor.execute is reached once after _ensure_connection returned True,
\* and it is not repeated after an Error
Executions(fault) == IF ensure_connection(fault) THEN 1 ELSE 0
Executed(fault) == fault \in {"alive", "reconnected"}

Bool(b) == IF b THEN "True" ELSE "False"

NoCall ==
    [op |-> "none", fault |-> "alive", connects |-> 0, executions |-> 0,
     failed |-> FALSE, result |-> "None", alert_id |-> "", error_msg |-> ""]
DbCall(op, fault, failed, result) ==
    [op |-> op, fault |-> fault, connects |-> Connects(fault),
     executions |-> Executions(fault), failed |-> failed, result |-> result,
     alert_id |-> "", error_msg |-> ""]

HasRow(rs, alert_id) == \E i \in DOMAIN rs : rs[i].alert_uid = alert_id

\* insert_alert: a plain INSERT; any mysql Error (connection, duplicate key)
\* is logged and reported as False
insert_alert(rs, alert_id, payload, dbok) ==
    IF ~dbok \/ (uniqueKey /\ HasRow(rs, alert_id))
    THEN [ok |-> FALSE, rows |-> rs]
    ELSE [ok |-> TRUE, rows |-> Append(rs, NewRow(alert_id, payload))]

\* update_alert_embedding: UPDATE ... WHERE alert_uid = id; True whenever no
\* Error was raised, whatever the number of rows matched
update_alert_embedding(rs, alert_id, embedding, dbok) ==
    IF ~dbok
    THEN [ok |-> FALSE, rows |-> rs]
    ELSE [ok |-> TRUE,
          rows |-> [i \in DOMAIN rs |->
                      IF rs[i].alert_uid = alert_id
                      THEN [rs[i] EXCEPT !.embedding = embedding,
                                         !.embedding_status = "completed"]
                      ELSE rs[i]]]

\* mark_embedding_failed: UPDATE ... SET embedding_status = 'failed'
\* WHERE alert_uid = id; error_msg goes to the log only
mark_embedding_failed(rs, alert_id, error_msg, dbok) ==
    IF ~dbok
    THEN rs
    ELSE [i \in DOMAIN rs |->
            IF rs[i].alert_uid = alert_id
            THEN [rs[i] EXCEPT !.embedding_status = "failed"]
            ELSE rs[i]]

\* what mark_embedding_failed hands back: False after a failed reconnect; the
\* try block and the except block both end without a return statement
mark_embedding_failed_returns(fault) ==
    IF ~ensure_connection(fault) THEN "False" ELSE "None"

\* ------------------------------------------- JinaEmbeddingService (ingest)
\* generate_embedding: one POST, no retry; the vector is returned only for a
\* 200 response whose first embedding has 1024 entries, otherwise None
generate_embedding(resp) ==
    IF resp.kind = "ok" /\ resp.len = EMBEDDING_DIM THEN resp.len ELSE NoVec

\* aiohttp.ClientError or asyncio.TimeoutError
Transient(resp) == resp.kind \in {"client_error", "timeout"}

\* `if embedding:` of the callers
Truthy(embedding) == embedding # NoVec /\ embedding # 0

\* ------------------------------------------------------------ IngestWorker
\* AlertPayload built by process_alert
AlertPayload(alert_data) ==
    [content |-> IF alert_data.content = Absent THEN "" ELSE alert_data.content,
     severity |-> alert_data.severity]

\* `'content' in alert_data and alert_data['content']`
HasContent(alert_data) ==
    alert_data.content # Absent /\ alert_data.content # ""

EmbeddingTaskData(alert_data) ==
    [n |-> alert_data.n, alert_id |-> alert_data.id,
     content |-> alert_data.content]

\* --------------------------------------------------------------- producers
\* what one attempt of the retried body of publish_alert does: it raises
\* before the LPUSH took effect (connect or LPUSH failed), it raises after the
\* LPUSH (HINCRBY failed), or it returns the id
AttemptOutcomes == {"raise_before", "raise_after", "ok"}

\* the attempts of one call under @retry(stop=stop_after_attempt(3)): every
\* attempt but the last raised, and the call ends with the first attempt that
\* returns or with the third
\* a retry decorator that stops one attempt later
PublishRunsOneMore ==
    {s \in UNION {[1..k -> AttemptOutcomes] : k \in 1..(MAX_ATTEMPTS + 1)} :
        /\ \A i \in 1..(Len(s) - 1) : s[i] # "ok"
        /\ Len(s) = MAX_ATTEMPTS + 1 \/ s[Len(s)] = "ok"}

PublishRuns ==
    {s \in UNION {[1..k -> AttemptOutcomes] : k \in 1..MAX_ATTEMPTS} :
        /\ \A i \in 1..(Len(s) - 1) : s[i] # "ok"
        /\ Len(s) = MAX_ATTEMPTS \/ s[Len(s)] = "ok"}

Pushes(s) == Cardinality({i \in DOMAIN s : s[i] # "raise_before"})
RaisedAfter(s) == Cardinality({i \in DOMAIN s : s[i] = "raise_after"})
Returned(s) == s[Len(s)] = "ok"

RECURSIVE lpush_times(_, _, _)
lpush_times(q, m, k) == IF k = 0 THEN q ELSE lpush_times(lpush(q, m), m, k - 1)

\* RedisQueue.publish_alert, the whole retried call; LPUSH on a key that
\* holds no list is refused by the broker (WRONGTYPE)
publish_alert ==
    /\ nPublished < MaxPublish
    /\ \E alert_data \in AlertData(nPublished + 1, IngestDescriptions), run \in PublishRuns :
        \* ids are interchangeable: the first one published is called "a1"
        /\ nPublished = 0 => alert_data.id = "a1"
        /\ statsFaults + RaisedAfter(run) <= MaxStatsFaults
        /\ "alerts_queue" \in strays =>
              \A i \in DOMAIN run : run[i] = "raise_before"
        /\ runs' = [runs EXCEPT ![alert_data.n] = run]
        /\ statsFaults' = statsFaults + RaisedAfter(run)
        /\ alerts_queue' = lpush_times(alerts_queue, alert_data, Pushes(run))
        /\ stats_queue' =
              IF Returned(run)
              THEN [stats_queue EXCEPT !.alerts_published = @ + 1]
              ELSE stats_queue
        /\ published' =
              IF Returned(run) THEN published \cup {alert_data.n} ELSE published
        /\ sent' = [sent EXCEPT ![alert_data.n] = alert_data]
    /\ nPublished' = nPublished + 1
    /\ UNCHANGED <<embedding_queue, rows, uniqueKey, stats, pc, cur, calls,
                   events, batchVars, popped, auxVars, dbcall, histVars>>

\* the id publisher_main makes up for its n-th alert (uuid4)
Uuid(n) == "alert-" \o ToString(n)

\* the sample alerts of publisher_main: id, type, location, severity and
\* timestamp, no content
SampleAlert(n) ==
    [n |-> n, json |-> "object", id |-> Uuid(n), content |-> Absent,
     description |-> Absent, severity |-> 4]

\* publisher_main, one round of `for alert in alerts`: RPUSH on "alerts_queue"
publisher_main ==
    /\ nPublished < MaxPublish
    /\ LET alert_data == SampleAlert(nPublished + 1) IN
        /\ alerts_queue' = rpush(alerts_queue, alert_data)
        /\ published' = published \cup {alert_data.n}
        /\ sent' = [sent EXCEPT ![alert_data.n] = alert_data]
    /\ nPublished' = nPublished + 1
    /\ UNCHANGED <<embedding_queue, rows, uniqueKey, stats, stats_queue, pc,
                   cur, statsFaults, calls, events, batchVars, popped, runs,
                   auxVars, dbcall, histVars>>

\* --------------------------------------------------------- alert processor
\* a process_alert that queues the task whatever insert_alert returned
queues_task_anyway(inserted, alert_data) == HasContent(alert_data)
\* process_alert returns after `if not self.db.insert_alert(...)`, and
\* reaches `if 'content' in alert_data and alert_data['content']` only
\* after an insert that returned True
queues_task(inserted, alert_data) == inserted /\ HasContent(alert_data)

\* consume_alerts: BRPOP returned a message; process_alert runs up to its
\* first await (insert_alert is a blocking call)
consume_alerts ==
    /\ pc.alert = "poll"
    /\ alerts_queue # <<>>
    /\ LET alert_data == Last(alerts_queue) IN
       \E fault \in DbFaults :
         LET dbok == Executed(fault)
             r == insert_alert(rows, alert_data.id, AlertPayload(alert_data), dbok)
         IN
         /\ dbcall' = DbCall("insert_alert", fault, ~r.ok, Bool(r.ok))
         /\ alerts_queue' = Front(alerts_queue)
         /\ popped' = Append(popped, alert_data.n)
         /\ rows' = r.rows
         /\ IF queues_task(r.ok, alert_data)
            THEN /\ pc' = [pc EXCEPT !.alert = "publish_embedding_task"]
                 /\ cur' = [cur EXCEPT !.alert = alert_data]
                 /\ events' = Note(events, alert_data.n, "inserted")
                 /\ UNCHANGED stats
            ELSE IF ~r.ok
            THEN /\ stats' = [stats EXCEPT !.failed = @ + 1]
                 /\ events' = Note(Note(events, alert_data.n, "insert_failed"),
                                   alert_data.n,
                                   IF dbok THEN "insert_conflict"
                                           ELSE "insert_failed")
                 /\ UNCHANGED <<pc, cur>>
            ELSE /\ stats' = [stats EXCEPT !.processed = @ + 1]
                 /\ events' = Note(Note(events, alert_data.n, "inserted"),
                                   alert_data.n, "no_content")
                 /\ UNCHANGED <<pc, cur>>
    /\ UNCHANGED <<embedding_queue, uniqueKey, producerVars, calls, batchVars,
                   auxVars, histVars>>

\* publish_embedding_task and the rest of process_alert: the task is pushed,
\* or the exception of _ensure_queue_exists or LPUSH is logged and False
\* returned; process_alert ignores the result and counts the alert as
\* processed
publish_embedding_task ==
    /\ pc.alert = "publish_embedding_task"
    /\ \E redisok \in BOOLEAN :
        /\ embedding_queue' =
              IF redisok
              THEN lpush(embedding_queue, EmbeddingTaskData(cur.alert))
              ELSE embedding_queue
        /\ events' = Note(events, cur.alert.n,
                          IF redisok THEN "task_published"
                                     ELSE "task_publish_failed")
    /\ stats' = [stats EXCEPT !.processed = @ + 1]
    /\ pc' = [pc EXCEPT !.alert = "poll"]
    /\ cur' = [cur EXCEPT !.alert = NoItem]
    /\ UNCHANGED <<alerts_queue, rows, uniqueKey, producerVars, calls,
                   batchVars, popped, auxVars, dbcall, histVars>>

\* ----------------------------------------------------- embedding processor
\* consume_embedding_tasks: BRPOP returned a task; process_embedding_task
\* runs up to the POST of generate_embedding
consume_embedding_tasks ==
    /\ pc.embed = "poll"
    /\ embedding_queue # <<>>
    /\ LET task_data == Last(embedding_queue) IN
        /\ embedding_queue' = Front(embedding_queue)
        /\ cur' = [cur EXCEPT !.embed = task_data]
        /\ calls' = [calls EXCEPT ![task_data.n] = @ + 1]
    /\ pc' = [pc EXCEPT !.embed = "generate_embedding"]
    /\ UNCHANGED <<alerts_queue, rows, uniqueKey, stats, producerVars, events,
                   batchVars, popped, auxVars, dbcall, histVars>>

\* process_embedding_task from the provider's response on
process_embedding_task ==
    /\ pc.embed = "generate_embedding"
    /\ \E resp \in Responses, fault \in DbFaults, markfault \in DbFaults :
        LET dbok == Executed(fault)
            markok == Executed(markfault)
            task_data == cur.embed
            embedding == generate_embedding(resp)
            u == update_alert_embedding(rows, task_data.alert_id, embedding, dbok)
            error_msg == IF Truthy(embedding)
                         THEN "Database update failed"
                         ELSE "Embedding generation failed"
        IN
        \* a call that is not made meets no fault
        /\ ~Truthy(embedding) => fault = "alive"
        /\ Truthy(embedding) /\ u.ok => markfault = "alive"
        /\ IF Truthy(embedding) /\ u.ok
           THEN /\ rows' = u.rows
                /\ stats' = [stats EXCEPT !.embedded = @ + 1]
                /\ events' = Note(events, task_data.n, "embedded")
                /\ dbcall' = DbCall("update_alert_embedding", fault, FALSE,
                                    "True")
           ELSE /\ rows' = mark_embedding_failed(rows, task_data.alert_id,
                                                 error_msg, markok)
                /\ dbcall' =
                     [DbCall("mark_embedding_failed", markfault, ~markok,
                             mark_embedding_failed_returns(markfault))
                        EXCEPT !.alert_id = task_data.alert_id,
                               !.error_msg = error_msg]
                /\ stats' = [stats EXCEPT !.failed = @ + 1]
                /\ events' = Note(Note(Note(events, task_data.n,
                                       IF Truthy(embedding) THEN "update_failed"
                                                            ELSE "embed_failed"),
                                  task_data.n, "mark_failed"),
                                  task_data.n,
                                  IF Transient(resp) THEN "transient_giveup"
                                                     ELSE "mark_failed")
    /\ pc' = [pc EXCEPT !.embed = "poll"]
    /\ cur' = [cur EXCEPT !.embed = NoItem]
    /\ UNCHANGED <<alerts_queue, embedding_queue, uniqueKey, producerVars,
                   calls, batchVars, popped, auxVars, histVars>>

\* ------------------------------------------------------ test_ingestion_flow
\* the alerts of test_ingestion_flow: two ids, each with a content
FlowAlert(n) ==
    [n |-> n, json |-> "object", id |-> IF n = 1 THEN "a1" ELSE "a2",
     content |-> "flood", description |-> Absent, severity |-> 4]

\* `await worker.process_alert(alert)` of the second loop, called without a
\* consumer: the insert, and after a successful insert the task for the
\* embedding queue, pushed or not
flow_process_alert ==
    /\ nPublished < MaxPublish
    /\ pc.embed = "poll"
    /\ \A n \in Serials : "task_called" \notin events[n]
    /\ LET alert_data == FlowAlert(nPublished + 1) IN
       \E fault \in DbFaults, redisok \in BOOLEAN :
         LET dbok == Executed(fault)
             r == insert_alert(rows, alert_data.id, AlertPayload(alert_data), dbok)
         IN
         /\ ~r.ok => redisok
         /\ dbcall' = DbCall("insert_alert", fault, ~r.ok, Bool(r.ok))
         /\ rows' = r.rows
         /\ sent' = [sent EXCEPT ![alert_data.n] = alert_data]
         /\ published' = published \cup {alert_data.n}
         /\ IF queues_task(r.ok, alert_data)
            THEN /\ embedding_queue' =
                       IF redisok
                       THEN lpush(embedding_queue, EmbeddingTaskData(alert_data))
                       ELSE embedding_queue
                 /\ stats' = [stats EXCEPT !.processed = @ + 1]
                 /\ events' = Note(Note(events, alert_data.n, "inserted"),
                                   alert_data.n,
                                   IF redisok THEN "task_published"
                                              ELSE "task_publish_failed")
            ELSE /\ stats' = [stats EXCEPT !.failed = @ + 1]
                 /\ events' = Note(events, alert_data.n, "insert_failed")
                 /\ UNCHANGED embedding_queue
    /\ nPublished' = nPublished + 1
    /\ UNCHANGED <<alerts_queue, uniqueKey, stats_queue, pc, cur, statsFaults,
                   runs, calls, batchVars, popped, auxVars, histVars>>

\* `await worker.process_embedding_task(task_data)` of the third loop, for an
\* alert of the second loop whatever process_alert did with it, up to the
\* POST of generate_embedding
flow_process_embedding_task ==
    /\ pc.embed = "poll"
    /\ nPublished = MaxPublish
    /\ \E n \in published :
        /\ "task_called" \notin events[n]
        /\ \A o \in published : o < n => "task_called" \in events[o]
        /\ cur' = [cur EXCEPT !.embed = EmbeddingTaskData(sent[n])]
        /\ calls' = [calls EXCEPT ![n] = @ + 1]
        /\ events' = Note(events, n, "task_called")
    /\ pc' = [pc EXCEPT !.embed = "generate_embedding"]
    /\ UNCHANGED <<alerts_queue, embedding_queue, rows, uniqueKey, stats,
                   producerVars, batchVars, popped, auxVars, dbcall, histVars>>

\* ----------------------------------------- the aliased fields of an alert
\* Numbers are written as their JSON text; None and a missing key are Absent.
Numbers == {"0", "19.076"}
Coordinates ==
    [kind : {"absent", "list"}, latitude : {Absent}, longitude : {Absent}]
        \cup [kind : {"dict"}, latitude : Numbers, longitude : Numbers]
NormInputs ==
    [id : {Absent, "a1"}, alert_type : {Absent, "flood"},
     type : {Absent, "quake"}, latitude : {Absent} \cup Numbers,
     longitude : {Absent} \cup Numbers, coordinates : Coordinates]
NoInput ==
    [id |-> Absent, alert_type |-> Absent, type |-> Absent,
     latitude |-> Absent, longitude |-> Absent,
     coordinates |-> [kind |-> "absent", latitude |-> Absent,
                      longitude |-> Absent]]
NoOutput ==
    [by |-> "none", rejected |-> FALSE, alert_id |-> Absent,
     alert_type |-> Absent, latitude |-> Absent, longitude |-> Absent]

\* the left operand of Python's `or` is kept unless it is falsy: None, 0, ''
Falsy(v) == v \in {Absent, "0", ""}
Or(a, b) == IF Falsy(a) THEN b ELSE a

\* alert_data.get('coordinates', {}).get(k) if isinstance(..., dict) else None
CoordinateOf(alert_data, k) ==
    IF alert_data.coordinates.kind = "dict"
    THEN alert_data.coordinates[k]
    ELSE Absent

\* IngestWorker.process_alert up to AlertPayload(...): the id, the alert type
\* and the position it stores
process_alert_payload ==
    /\ norm_out.by = "none"
    /\ norm_out' =
          [by |-> "IngestWorker", rejected |-> FALSE,
           alert_id |-> IF norm_in.id = Absent THEN Uuid(1) ELSE norm_in.id,
           alert_type |-> Or(norm_in.alert_type, norm_in.type),
           latitude |-> Or(norm_in.latitude, CoordinateOf(norm_in, "latitude")),
           longitude |-> Or(norm_in.longitude,
                            CoordinateOf(norm_in, "longitude"))]
    /\ UNCHANGED <<ingestVars, batchVars, rows, uniqueKey, nPublished, sent,
                   published, calls, events, popped, strays, checked, dbcall,
                   norm_in, histVars>>

\* EmbeddingTask.process_alert, its first statements: `if not alert_id`
\* returns False
batch_process_alert_id ==
    /\ norm_out.by = "none"
    /\ norm_out' =
          [by |-> "EmbeddingTask", rejected |-> Falsy(norm_in.id),
           alert_id |-> norm_in.id, alert_type |-> Absent,
           latitude |-> Absent, longitude |-> Absent]
    /\ UNCHANGED <<ingestVars, batchVars, rows, uniqueKey, nPublished, sent,
                   published, calls, events, popped, strays, checked, dbcall,
                   norm_in, histVars>>

\* ------------------------------------------------- the shape of a queue key
\* what TYPE answers for a key: a stray key holds a stream (test_redis.py
\* creates "alerts_queue" with XGROUP CREATE ... MKSTREAM), an empty list is
\* no key at all
KeyType(key, q) ==
    IF key \in strays THEN "stream" ELSE IF q = <<>> THEN "none" ELSE "list"

\* the body shared by RedisQueue._ensure_queue_exists and
\* RedisQueueTester.ensure_queue_exists. The reply of TYPE is bytes on a
\* client made with decode_responses=False and str on one made with
\* decode_responses=True; a str equals no bytes literal, and str has no
\* .decode(), so the warning of the elif branch raises before DELETE
ensure_queue_exists(decode_responses, key_type) ==
    LET is_none == ~decode_responses /\ key_type = "none"
        not_list == decode_responses \/ key_type # "list"
    IN
    IF is_none THEN [raised |-> FALSE, deleted |-> FALSE]
    ELSE IF not_list
    THEN IF decode_responses
         THEN [raised |-> TRUE, deleted |-> FALSE]
         ELSE [raised |-> FALSE, deleted |-> TRUE]
    ELSE [raised |-> FALSE, deleted |-> FALSE]

\* RedisQueue.connect builds its client with decode_responses=True,
\* RedisQueueTester.connect with decode_responses=False
DecodeResponses(client) == client = "RedisQueue"

\* one call of the check by `client` on `key`, whose list is q
QueueCheck(client, key, q) ==
    LET before == KeyType(key, q)
        c == ensure_queue_exists(DecodeResponses(client), before)
    IN [client |-> client, key |-> key, before |-> before,
        raised |-> c.raised, deleted |-> c.deleted,
        after |-> IF c.deleted THEN "none" ELSE before]

\* RedisQueueTester.publish_test_alert: the check, then LPUSH of the test
\* alert; a failed check or a failed LPUSH returns False
TestAlert(n) ==
    [n |-> n, json |-> "object", id |-> "test_alert", content |-> "flood",
     description |-> Absent, severity |-> 3]

publish_test_alert ==
    /\ nPublished < MaxPublish
    /\ LET alert_data == TestAlert(nPublished + 1)
           c == QueueCheck("RedisQueueTester", "alerts_queue", alerts_queue)
       IN
       \E lpushok \in BOOLEAN :
        /\ checked' = c
        /\ strays' = IF c.deleted THEN strays \ {"alerts_queue"} ELSE strays
        /\ alerts_queue' =
              IF ~c.raised /\ lpushok /\ c.after # "stream"
              THEN lpush(alerts_queue, alert_data)
              ELSE alerts_queue
        /\ published' =
              IF ~c.raised /\ lpushok /\ c.after # "stream"
              THEN published \cup {alert_data.n}
              ELSE published
        /\ sent' = [sent EXCEPT ![alert_data.n] = alert_data]
    /\ nPublished' = nPublished + 1
    /\ UNCHANGED <<embedding_queue, rows, uniqueKey, stats, stats_queue, pc,
                   cur, statsFaults, calls, events, batchVars, popped, runs,
                   dbcall, normVars, histVars>>

\* run_alert_processor up to the first BRPOP of consume_alerts: both
\* connects, then the check of the alert queue. RedisQueue never assigns
\* alert_queue; it is read as the key publish_alert pushes to (with the
\* attribute missing the same statement raises as well). The exception is
\* logged by consume_alerts, which returns
run_alert_processor ==
    /\ pc.alert = "start"
    /\ \E db_connect \in BOOLEAN, queue_connect \in BOOLEAN :
        IF db_connect /\ queue_connect
        THEN LET c == QueueCheck("RedisQueue", "alerts_queue", alerts_queue) IN
             /\ checked' = c
             /\ strays' = IF c.deleted THEN strays \ {"alerts_queue"} ELSE strays
             /\ pc' = [pc EXCEPT !.alert = IF c.raised THEN "stopped" ELSE "poll"]
        ELSE /\ pc' = [pc EXCEPT !.alert = IF db_connect THEN "queue_down"
                                                        ELSE "db_down"]
             /\ UNCHANGED <<checked, strays>>
    /\ UNCHANGED <<alerts_queue, embedding_queue, rows, uniqueKey, stats,
                   producerVars, cur, calls, events, batchVars, popped,
                   dbcall, normVars, histVars>>

\* run_embedding_processor up to the first BRPOP of consume_embedding_tasks;
\* the exception of the check is raised again and ends the worker
run_embedding_processor ==
    /\ pc.embed = "start"
    /\ \E db_connect \in BOOLEAN, queue_connect \in BOOLEAN :
        IF db_connect /\ queue_connect
        THEN LET c == QueueCheck("RedisQueue", "embedding_queue",
                                 embedding_queue) IN
             /\ checked' = c
             /\ strays' = IF c.deleted THEN strays \ {"embedding_queue"} ELSE strays
             /\ pc' = [pc EXCEPT !.embed = IF c.raised THEN "stopped" ELSE "poll"]
        ELSE /\ pc' = [pc EXCEPT !.embed = IF db_connect THEN "queue_down"
                                                        ELSE "db_down"]
             /\ UNCHANGED <<checked, strays>>
    /\ UNCHANGED <<alerts_queue, embedding_queue, rows, uniqueKey, stats,
                   producerVars, cur, calls, events, batchVars, popped,
                   dbcall, normVars, histVars>>

\* the ways a processor coroutine of main ends before or at its first BRPOP:
\* `return False` after a failed database or queue connect, or the exception
\* of the queue check caught by `except Exception`
ProcessorEnded == {"db_down", "queue_down", "stopped"}

\* main when load_config does not give a configuration: a missing TiDB
\* setting or Jina key raises ValueError, which `except Exception` of main
\* prints before main returns; an empty REDIS_URL reaches `exit(1)`
load_config ==
    /\ exit_status = "running"
    /\ pc = [alert |-> "start", embed |-> "start"]
    /\ \E outcome \in {"raised", "empty_redis_url"} :
        exit_status' = IF outcome = "empty_redis_url" THEN "1" ELSE "0"
    /\ pc' = [alert |-> "no_worker", embed |-> "no_worker"]
    /\ UNCHANGED <<alerts_queue, embedding_queue, rows, uniqueKey, stats,
                   producerVars, cur, calls, events, batchVars, popped,
                   dbcall, auxVars, posts, link,
                   taken>>

\* main in mode `both` after gather returned: the results of the two
\* processors are not looked at, the stats task is cancelled and main
\* returns, so asyncio.run returns and the interpreter exits with status 0
main ==
    /\ exit_status = "running"
    /\ pc.alert \in ProcessorEnded /\ pc.embed \in ProcessorEnded
    /\ exit_status' = "0"
    /\ UNCHANGED <<alerts_queue, embedding_queue, rows, uniqueKey, stats,
                   producerVars, pc, cur, calls, events, batchVars, popped,
                   dbcall, auxVars, posts, link,
                   taken>>

\* ------------------------------------- the two processors of mode `both`
\* IngestWorker.__init__ makes one TiDBConnection and one RedisQueue; both
\* processors of `asyncio.gather(run_alert_processor(),
\* run_embedding_processor())` connect, use and disconnect these two
Processors == {"alert", "embed"}
QueueOf(p) == IF p = "alert" THEN "alerts_queue" ELSE "embedding_queue"

\* the finally block of a processor: TiDBConnection.disconnect closes a
\* connection that is connected, RedisQueue.disconnect closes the client
\* and unsets connected
disconnected(l) ==
    [l EXCEPT !.db = IF @ = "live" THEN "closed" ELSE @,
              !.redis = IF @ = "none" THEN @ ELSE "closed",
              !.connected = FALSE]

\* a processor from its start to the await of its queue check: the two
\* connects, and after a failed one `return False` through the finally
\* block
connect_services(p) ==
    /\ pc[p] = "start"
    /\ \E db_connect \in BOOLEAN, queue_connect \in BOOLEAN :
        LET l == [link EXCEPT
                    !.db = IF db_connect THEN "live" ELSE @,
                    !.redis = IF db_connect /\ queue_connect THEN "live" ELSE @,
                    !.connected = @ \/ (db_connect /\ queue_connect)]
        IN
        IF db_connect /\ queue_connect
        THEN /\ link' = l
             /\ pc' = [pc EXCEPT ![p] = "connected"]
        ELSE /\ link' = disconnected(l)
             /\ pc' = [pc EXCEPT ![p] = IF db_connect THEN "queue_down"
                                                      ELSE "db_down"]
    /\ UNCHANGED <<alerts_queue, embedding_queue, rows, uniqueKey, stats,
                   producerVars, cur, calls, events, batchVars, popped,
                   dbcall, auxVars, posts, exit_status,
                   taken>>

\* the consumer of a connected processor up to its first BRPOP: the
\* exception of the queue check is logged, the consumer returns and the
\* finally block of the processor disconnects
start_consumer(p) ==
    /\ pc[p] = "connected"
    /\ LET c == QueueCheck("RedisQueue", QueueOf(p),
                           IF p = "alert" THEN alerts_queue
                                          ELSE embedding_queue)
       IN
        /\ checked' = c
        /\ strays' = IF c.deleted THEN strays \ {QueueOf(p)} ELSE strays
        /\ IF c.raised
           THEN /\ pc' = [pc EXCEPT ![p] = "stopped"]
                /\ link' = disconnected(link)
           ELSE /\ pc' = [pc EXCEPT ![p] = "poll"]
                /\ UNCHANGED link
    /\ UNCHANGED <<alerts_queue, embedding_queue, rows, uniqueKey, stats,
                   producerVars, cur, calls, events, batchVars, popped,
                   dbcall, normVars, posts, exit_status,
                   taken>>

\* -------------------------------------------- several worker processes
\* two processes started with `--mode alerts` consume the one "alerts_queue"
Workers == {"w1", "w2"}

\* a pop that reads the tail of the list and leaves it there
lindex(q) == [message |-> Last(q), rest |-> q]
\* `result = await self.redis.brpop(self.alert_queue, timeout=1)`: Redis
\* removes the tail of the list and answers it to the one client served
brpop(q) == [message |-> Last(q), rest |-> Front(q)]

\* one iteration of consume_alerts in worker process w that finds a message:
\* BRPOP, then process_alert with the insert and, for an alert with content,
\* the embedding task pushed or not (the counters of self.stats live in
\* each process and are not kept here)
worker_consume(w) ==
    /\ alerts_queue # <<>>
    /\ LET got == brpop(alerts_queue)
           alert_data == got.message
       IN
       \E fault \in {"alive", "alive_error"}, redisok \in BOOLEAN :
         LET dbok == Executed(fault)
             r == insert_alert(rows, alert_data.id, AlertPayload(alert_data), dbok)
         IN
         /\ ~queues_task(r.ok, alert_data) => redisok
         /\ alerts_queue' = got.rest
         /\ taken' = [taken EXCEPT ![w] = Append(@, alert_data.n)]
         /\ dbcall' = DbCall("insert_alert", fault, ~r.ok, Bool(r.ok))
         /\ rows' = r.rows
         /\ embedding_queue' =
               IF queues_task(r.ok, alert_data) /\ redisok
               THEN lpush(embedding_queue, EmbeddingTaskData(alert_data))
               ELSE embedding_queue
         /\ events' = Note(events, alert_data.n,
                           IF r.ok THEN "inserted" ELSE "insert_failed")
    /\ UNCHANGED <<uniqueKey, stats, producerVars, pc, cur, calls, batchVars,
                   popped, auxVars, posts, exit_status, link>>

\* ------------------------------------------- the two long-lived clients
\* link holds TiDBConnection.connection and the connection of the Redis
\* client ("none" before the first connect, "live", or "dead" once the peer
\* is gone), RedisQueue.connected, and whether each server can be reached.
MaxOps == 4
MaxDrops == 2

\* MySQLConnection.is_connected pings the server
is_connected(conn) == conn = "live"

\* a client that keeps the connection it has
kept_connection(conn, up) == conn
\* _ensure_connection: `if not self.connection or not
\* self.connection.is_connected(): return self.connect()`; connect assigns
\* self.connection only when mysql.connector.connect returned
ensured_connection(conn, up) ==
    IF is_connected(conn) THEN conn ELSE IF up THEN "live" ELSE conn

\* `if not self.connected and not await self.connect()` followed by a command
\* of the client: connected stays True after a loss, and the connection pool
\* of the client opens a new socket for a command that finds the old one
\* closed
queue_connection(conn, connected, up) ==
    IF ~connected
    THEN IF up THEN "live" ELSE conn
    ELSE IF conn = "live" THEN conn ELSE IF up THEN "live" ELSE "dead"

Operated(client, before, up, ok) ==
    [client |-> client, before |-> before, up |-> up, ok |-> ok]

\* the peer or the network closes an established connection
connection_lost ==
    /\ link.drops < MaxDrops
    /\ \E client \in {"db", "redis"} :
        /\ link[client] = "live"
        /\ link' = [link EXCEPT ![client] = "dead", !.drops = @ + 1]
    /\ UNCHANGED <<alerts_queue, embedding_queue, rows, uniqueKey, stats,
                   producerVars, pc, cur, calls, events, batchVars, popped,
                   dbcall, auxVars, posts, exit_status,
                   taken>>

\* a server goes away, taking its connection with it, or comes back
server_outage ==
    /\ link.drops < MaxDrops
    /\ \/ link' = [link EXCEPT !.db_up = ~@, !.drops = @ + 1,
                                !.db = IF @ = "live" THEN "dead" ELSE @]
       \/ link' = [link EXCEPT !.redis_up = ~@, !.drops = @ + 1,
                                !.redis = IF @ = "live" THEN "dead" ELSE @]
    /\ UNCHANGED <<alerts_queue, embedding_queue, rows, uniqueKey, stats,
                   producerVars, pc, cur, calls, events, batchVars, popped,
                   dbcall, auxVars, posts, exit_status,
                   taken>>

\* insert_alert, update_alert_embedding or mark_embedding_failed up to its
\* cursor: `if not self._ensure_connection(): return False`
db_operation ==
    /\ link.ops < MaxOps
    /\ LET conn == ensured_connection(link.db, link.db_up)
           ok == is_connected(conn)
       IN link' = [link EXCEPT
                     !.db = conn, !.ops = @ + 1,
                     !.recovered = IF link.db = "dead" /\ ok
                                   THEN @ \cup {"db"} ELSE @,
                     !.last = Operated("db", link.db, link.db_up, ok)]
    /\ UNCHANGED <<alerts_queue, embedding_queue, rows, uniqueKey, stats,
                   producerVars, pc, cur, calls, events, batchVars, popped,
                   dbcall, auxVars, posts, exit_status,
                   taken>>

\* publish_alert up to its first command: ConnectionError when no
\* connection can be made
queue_operation ==
    /\ link.ops < MaxOps
    /\ LET conn == queue_connection(link.redis, link.connected, link.redis_up)
           ok == conn = "live"
       IN link' = [link EXCEPT
                     !.redis = conn, !.ops = @ + 1,
                     !.connected = @ \/ ok,
                     !.recovered = IF link.redis = "dead" /\ ok
                                   THEN @ \cup {"redis"} ELSE @,
                     !.last = Operated("redis", link.redis, link.redis_up, ok)]
    /\ UNCHANGED <<alerts_queue, embedding_queue, rows, uniqueKey, stats,
                   producerVars, pc, cur, calls, events, batchVars, popped,
                   dbcall, auxVars, posts, exit_status,
                   taken>>

\* ------------------------------------ JinaEmbeddingService (batch worker)
\* `if not text.strip()` of get_embedding
Blank(text) == text \in {"", " "}

\* one attempt of get_embedding on a response: the vector of a 200 response
\* as it came, None for a non-200 status, or the exception re-raised
get_embedding(resp) ==
    IF resp.kind = "ok" THEN [raised |-> FALSE, embedding |-> resp.len]
    ELSE IF resp.kind = "http_error" THEN [raised |-> FALSE, embedding |-> NoVec]
    ELSE [raised |-> TRUE, embedding |-> NoVec]

\* retry_if_exception_type((aiohttp.ClientError, asyncio.TimeoutError)) with
\* stop_after_attempt(3)
\* how a call to the provider ended: a vector, a non-200 response, or a
\* transport error or timeout
Outcome(resp) ==
    IF resp.kind = "ok" THEN "ok"
    ELSE IF resp.kind = "http_error" THEN "refused" ELSE "transient"

\* the calls of one get_embedding invocation: how many were answered, the
\* outcomes after which a further call was made, and the outcome of the last
NoPost == [count |-> 0, retried_after |-> {}, last |-> "none"]
Posted(p, resp, again) ==
    [count |-> p.count + 1,
     retried_after |-> IF again THEN p.retried_after \cup {Outcome(resp)}
                                ELSE p.retried_after,
     last |-> Outcome(resp)]

\* a retry condition that takes every failed call for transient
RetriesAnyFailure(resp, attempt) == resp.kind # "ok" /\ attempt < MAX_ATTEMPTS
Retries(resp, attempt) == Transient(resp) /\ attempt < MAX_ATTEMPTS

\* ------------------------------------------------------- DatabaseService
\* update_alert_embedding: UPDATE alerts SET embedding, status = 'processed'
\* WHERE id = alert_id on a fresh connection; cursor.rowcount > 0.  The key
\* column the worker's alert ids are matched against is the row's alert_uid
\* of this model.
db_update_alert_embedding(rs, alert_id, embedding, dbok) ==
    IF ~dbok
    THEN [ok |-> FALSE, rows |-> rs]
    ELSE [ok |-> HasRow(rs, alert_id),
          rows |-> [i \in DOMAIN rs |->
                      IF rs[i].alert_uid = alert_id
                      THEN [rs[i] EXCEPT !.embedding = embedding,
                                         !.status = "processed"]
                      ELSE rs[i]]]

\* ------------------------------------------------------------ EmbeddingTask
\* `content = alert_data.get('description', '')[:4000]`
BatchContent(alert_data) ==
    IF alert_data.description = Absent THEN "" ELSE alert_data.description

Done(alert_data, result) ==
    [alert |-> alert_data, stage |-> "done", attempt |-> 0,
     embedding |-> NoVec, result |-> result]

\* process_alert up to its first suspension: it returns False for an alert
\* without text, and otherwise sits in the POST of get_embedding
start_item(alert_data) ==
    IF BatchContent(alert_data) = "" \/ Blank(BatchContent(alert_data))
    THEN Done(alert_data, "False")
    ELSE [alert |-> alert_data, stage |-> "post", attempt |-> 1,
          embedding |-> NoVec, result |-> "none"]

RECURSIVE start_calls(_, _)
start_calls(c, ts) ==
    IF ts = <<>> THEN c
    ELSE start_calls(IF ts[1].stage = "post"
                     THEN [c EXCEPT ![ts[1].alert.n] = @ + 1] ELSE c,
                     Tail(ts))

RECURSIVE start_events(_, _)
start_events(ev, ts) ==
    IF ts = <<>> THEN ev
    ELSE start_events(IF ts[1].stage = "done"
                      THEN Note(ev, ts[1].alert.n, "no_content") ELSE ev,
                      Tail(ts))

\* `asyncio.gather(*tasks, return_exceptions=True)`: an exception of one
\* coroutine becomes its result and does not reach process_queue
return_exceptions == TRUE

\* process_queue after an exception reached `except Exception` of its loop:
\* traceback is not imported, so the handler itself raises NameError, the
\* loop is left, the connection closed and main exits with status 1
AfterCoroutineRaised == IF return_exceptions THEN "gather" ELSE "crashed"

\* test_alert_processing_flow: LPUSH of a JSON alert on the worker's queue
lpush_alert ==
    /\ nPublished < MaxPublish
    /\ \E alert_data \in AlertData(nPublished + 1, Descriptions)
                            \cup {NonObject(nPublished + 1)} :
        /\ disaster_alerts' = lpush(disaster_alerts, alert_data)
        /\ published' = published \cup {alert_data.n}
        /\ sent' = [sent EXCEPT ![alert_data.n] = alert_data]
    /\ nPublished' = nPublished + 1
    /\ UNCHANGED <<ingestVars, rows, uniqueKey, calls, events,
                   disaster_stats, bpc, polls, alerts, tasks, bstats, popped,
                   auxVars, dbcall, histVars>>

\* a parser that takes any text
parses_anything(message) == FALSE
\* `alert = json.loads(task_data[1])` raises JSONDecodeError for a message
\* that is no JSON text; `except json.JSONDecodeError` logs it and the
\* iteration ends with nothing appended
JSONDecodeError(message) == message.json = "invalid"

\* a pop that hands the batch an entry also when it timed out
polled_anyway(q, got) ==
    Append(got, IF q = <<>> THEN NonObject(0) ELSE Last(q))
\* `task_data = await self.redis.brpop(queue, timeout=1)` and `if task_data
\* and len(task_data) > 1: alerts.append(alert)`: a timeout is None and
\* appends nothing
polled(q, got) ==
    IF q = <<>> \/ JSONDecodeError(Last(q)) THEN got ELSE Append(got, Last(q))

\* one iteration of `for _ in range(self.batch_size)`: BRPOP returns an alert
\* or times out; after the last iteration the collected alerts are handed
\* to gather and every coroutine runs to its first suspension.  A message
\* that parses to something else than an object is appended and then makes
\* `alert.get('id')` raise AttributeError, which is no JSONDecodeError.
\* That exception, like one raised by BRPOP itself, reaches `except
\* Exception` of the loop, whose handler raises NameError
collect ==
    /\ bpc = "collect"
    /\ polls < BatchSize
    /\ \E reply \in {"answered", "raised"} :
        IF reply = "raised"
        THEN /\ bpc' = "crashed"
             /\ UNCHANGED <<disaster_alerts, alerts, polls, tasks, calls,
                            events>>
        ELSE LET got == polled(disaster_alerts, alerts)
                 started == [i \in DOMAIN got |-> start_item(got[i])]
             IN
              /\ disaster_alerts' =
                    IF disaster_alerts = <<>> THEN disaster_alerts
                    ELSE Front(disaster_alerts)
              /\ IF /\ disaster_alerts # <<>>
                    /\ ~JSONDecodeError(Last(disaster_alerts))
                    /\ Last(disaster_alerts).json # "object"
                 THEN /\ bpc' = "crashed"
                      /\ alerts' = got
                      /\ UNCHANGED <<polls, tasks, calls, events>>
                 ELSE IF polls + 1 < BatchSize
                 THEN /\ polls' = polls + 1
                      /\ alerts' = got
                      /\ UNCHANGED <<bpc, tasks, calls, events>>
                 ELSE IF got = <<>>
                 THEN /\ polls' = 0
                      /\ alerts' = got
                      /\ UNCHANGED <<bpc, tasks, calls, events>>
                 ELSE /\ polls' = polls + 1
                      /\ alerts' = got
                      /\ tasks' = started
                      /\ calls' = start_calls(calls, started)
                      /\ events' = start_events(events, started)
                      /\ bpc' = "gather"
    /\ UNCHANGED <<ingestVars, sent, published, nPublished, rows, uniqueKey,
                   disaster_stats, bstats, popped, auxVars, dbcall, histVars>>

\* the provider answers the POST of coroutine i
item_response(i) ==
    /\ bpc = "gather"
    /\ i \in DOMAIN tasks
    /\ tasks[i].stage = "post"
    /\ \E resp \in Responses :
        LET t == tasks[i]
            r == get_embedding(resp)
        IN
        /\ posts' = [posts EXCEPT ![t.alert.n] =
                        Posted(@, resp, Retries(resp, t.attempt))]
        /\ IF Retries(resp, t.attempt)
           THEN /\ tasks' = [tasks EXCEPT ![i].attempt = @ + 1]
                /\ calls' = [calls EXCEPT ![t.alert.n] = @ + 1]
                /\ UNCHANGED <<bstats, events, bpc>>
           ELSE IF r.raised
           THEN /\ tasks' = [tasks EXCEPT ![i] = Done(t.alert, "exception")]
                /\ bstats' = [bstats EXCEPT !.failed = @ + 1]
                /\ events' = Note(Note(events, t.alert.n, "embed_failed"),
                                  t.alert.n, "transient_giveup")
                /\ bpc' = AfterCoroutineRaised
                /\ UNCHANGED calls
           ELSE IF ~Truthy(r.embedding)
           THEN /\ tasks' = [tasks EXCEPT ![i] = Done(t.alert, "False")]
                /\ events' = Note(events, t.alert.n, "embed_failed")
                /\ UNCHANGED <<bstats, calls, bpc>>
           ELSE /\ tasks' = [tasks EXCEPT ![i].stage = "db",
                                          ![i].embedding = r.embedding]
                /\ UNCHANGED <<bstats, calls, events, bpc>>
    /\ UNCHANGED <<ingestVars, nPublished, sent, published, rows, uniqueKey,
                   disaster_alerts, disaster_stats, polls, alerts, popped,
                   auxVars, dbcall, exit_status, link,
                   taken>>

\* an increment that writes back the value its coroutine read when the batch
\* started, so that the increments of the coroutines that finished since are
\* overwritten
lost_update(counter, ts) ==
    counter + 1 - Cardinality({i \in DOMAIN ts : ts[i].result = "True"})
\* `self.stats['processed'] += 1`: the read and the write have no await
\* between them, so on the one event loop the value read is the current
\* one whatever the other coroutines of the batch (ts) have done
incremented(counter, ts) == counter + 1

\* the database round trip of coroutine i and the rest of process_alert
item_update(i) ==
    /\ bpc = "gather"
    /\ i \in DOMAIN tasks
    /\ tasks[i].stage = "db"
    /\ \E dbok \in BOOLEAN, redisok \in BOOLEAN :
        LET t == tasks[i]
            u == db_update_alert_embedding(rows, t.alert.id, t.embedding, dbok)
        IN
        /\ rows' = u.rows
        /\ IF ~u.ok
           THEN /\ tasks' = [tasks EXCEPT ![i] = Done(t.alert, "False")]
                /\ events' = Note(events, t.alert.n, "update_failed")
                /\ UNCHANGED <<bstats, disaster_stats, bpc>>
           ELSE IF redisok
           THEN /\ tasks' = [tasks EXCEPT ![i] = Done(t.alert, "True")]
                /\ events' = Note(events, t.alert.n, "embedded")
                /\ bstats' = [bstats EXCEPT !.processed = incremented(@, tasks)]
                /\ disaster_stats' =
                      [disaster_stats EXCEPT !.embeddings_generated = @ + 1]
                /\ UNCHANGED bpc
           ELSE /\ tasks' = [tasks EXCEPT ![i] = Done(t.alert, "exception")]
                /\ events' = Note(Note(events, t.alert.n, "embedded"),
                                  t.alert.n, "stats_failed")
                /\ bstats' = [bstats EXCEPT !.processed = incremented(@, tasks),
                                            !.failed = @ + 1]
                /\ bpc' = AfterCoroutineRaised
                /\ UNCHANGED disaster_stats
    /\ UNCHANGED <<ingestVars, nPublished, sent, published, uniqueKey, calls,
                   disaster_alerts, polls, alerts, popped, auxVars, dbcall,
                   histVars>>

\* a wait that ends with the first coroutine to finish
first_completed(ts) == \E i \in DOMAIN ts : ts[i].stage = "done"
\* `results = await asyncio.gather(*tasks, return_exceptions=True)`: the
\* await ends when every coroutine of the batch has finished
gathered(ts) == \A i \in DOMAIN ts : ts[i].stage = "done"

success_count(ts) ==
    Cardinality({i \in DOMAIN ts : ts[i].result = "True"})

\* gather returned: the batch is counted and the next cycle starts
finish_batch ==
    /\ bpc = "gather"
    /\ gathered(tasks)
    /\ disaster_stats' =
          [disaster_stats EXCEPT !.alerts_processed = @ + success_count(tasks)]
    /\ bpc' = "collect"
    /\ polls' = 0
    /\ alerts' = <<>>
    /\ tasks' = <<>>
    /\ UNCHANGED <<ingestVars, nPublished, sent, published, rows, uniqueKey,
                   calls, events, disaster_alerts, bstats, popped, auxVars, dbcall,
                   histVars>>

\* a producer of well-formed alerts whose rows are stored: LPUSH on the
\* worker's queue, more often than one batch holds
lpush_valid_alert ==
    /\ nPublished < MaxQueued
    /\ \E id \in Ids :
        LET alert_data == [n |-> nPublished + 1, json |-> "object", id |-> id,
                           content |-> Absent, description |-> "quake",
                           severity |-> 4]
        IN
        /\ disaster_alerts' = lpush(disaster_alerts, alert_data)
        /\ published' = published \cup {alert_data.n}
        /\ sent' = [sent EXCEPT ![alert_data.n] = alert_data]
    /\ nPublished' = nPublished + 1
    /\ UNCHANGED <<ingestVars, rows, uniqueKey, calls, events,
                   disaster_stats, bpc, polls, alerts, tasks, bstats, popped,
                   auxVars, dbcall, histVars>>

\* a producer of the worker's queue that sends a well-formed alert or a
\* text that is no JSON
lpush_raw ==
    /\ nPublished < MaxQueued
    /\ \E alert_data \in {[n |-> nPublished + 1, json |-> "object",
                            id |-> "a1", content |-> Absent,
                            description |-> "quake", severity |-> 4],
                           Invalid(nPublished + 1)} :
        /\ disaster_alerts' = lpush(disaster_alerts, alert_data)
        /\ published' = published \cup {alert_data.n}
        /\ sent' = [sent EXCEPT ![alert_data.n] = alert_data]
    /\ nPublished' = nPublished + 1
    /\ UNCHANGED <<ingestVars, rows, uniqueKey, calls, events,
                   disaster_stats, bpc, polls, alerts, tasks, bstats, popped,
                   auxVars, dbcall, histVars>>

\* the task running process_queue is cancelled (Ctrl+C makes asyncio.run
\* cancel main): CancelledError is raised at the await the loop sits in, the
\* BRPOP of the collecting phase or the gather, which cancels its coroutines
\* in turn; `except asyncio.CancelledError: break` leaves the loop and the
\* finally block closes the Redis client. Nothing of the cycle is finished
process_queue_cancelled ==
    /\ bpc \in {"collect", "gather"}
    /\ bpc' = "closed"
    /\ UNCHANGED <<ingestVars, nPublished, sent, published, rows, uniqueKey,
                   calls, events, disaster_alerts, disaster_stats, polls,
                   alerts, tasks, bstats, popped, auxVars, dbcall, histVars>>

\* ----------------------------------------------------------- specification
InitCommon ==
    /\ alerts_queue = <<>>
    /\ embedding_queue = <<>>
    /\ stats = [processed |-> 0, embedded |-> 0, failed |-> 0]
    /\ stats_queue = [alerts_published |-> 0]
    /\ cur = [alert |-> NoItem, embed |-> NoItem]
    /\ nPublished = 0
    /\ statsFaults = 0
    /\ sent = [n \in Serials |-> NoItem]
    /\ published = {}
    /\ calls = [n \in Serials |-> 0]
    /\ events = [n \in Serials |-> {}]
    /\ disaster_alerts = <<>>
    /\ disaster_stats = [embeddings_generated |-> 0, alerts_processed |-> 0]
    /\ bpc = "collect"
    /\ polls = 0
    /\ alerts = <<>>
    /\ tasks = <<>>
    /\ bstats = [processed |-> 0, failed |-> 0]
    /\ popped = <<>>
    /\ runs = [n \in Serials |-> <<>>]
    /\ checked = NoCheck
    /\ dbcall = NoCall
    /\ norm_out = NoOutput
    /\ posts = [n \in Serials |-> NoPost]
    /\ exit_status = "running"
    /\ link = NoLink
    /\ taken = [w \in Workers |-> <<>>]

\* the ingest worker starts on an empty table
Init ==
    /\ InitCommon
    /\ norm_in = NoInput
    /\ pc = [alert |-> "poll", embed |-> "poll"]
    /\ strays = {}
    /\ rows = <<>>
    /\ uniqueKey \in BOOLEAN

Next ==
    \/ publish_alert
    \/ publisher_main
    \/ consume_alerts
    \/ publish_embedding_task
    \/ consume_embedding_tasks
    \/ process_embedding_task

Spec == Init /\ [][Next]_vars

\* the worker as main() starts it in mode 'both', with the producers of
\* "alerts_queue" beside it; the key may have been left as a stream. Neither
\* processor gets from its start into its loop (pc never becomes "poll"), so
\* the steps of the loops are no part of NextMain
InitMain ==
    /\ InitCommon
    /\ norm_in = NoInput
    /\ pc = [alert |-> "start", embed |-> "start"]
    /\ strays \in SUBSET {"alerts_queue"}
    /\ rows = <<>>
    /\ uniqueKey \in BOOLEAN

NextMain ==
    \/ publish_alert
    \/ publish_test_alert
    \/ run_alert_processor
    \/ run_embedding_processor
    \/ load_config
    \/ main

SpecMain == InitMain /\ [][NextMain]_vars

\* process_alert of either worker applied to one alert of any aliased shape
InitNormalize ==
    /\ InitCommon
    /\ pc = [alert |-> "poll", embed |-> "poll"]
    /\ strays = {}
    /\ rows = <<>>
    /\ uniqueKey = TRUE
    /\ norm_in \in NormInputs

NextNormalize ==
    \/ process_alert_payload
    \/ batch_process_alert_id

SpecNormalize == InitNormalize /\ [][NextNormalize]_vars

\* the batch worker inserts no row: it runs on a table that holds the rows
\* of some of the alerts it is sent
SeedRow(alert_id) == NewRow(alert_id, [content |-> "quake", severity |-> 4])
SeedRows == {<<>>, <<SeedRow("a1")>>, <<SeedRow("a1"), SeedRow("a2")>>}

InitBatch ==
    /\ InitCommon
    /\ norm_in = NoInput
    /\ pc = [alert |-> "poll", embed |-> "poll"]
    /\ strays = {}
    /\ rows \in SeedRows
    /\ uniqueKey = TRUE

NextBatch ==
    \/ lpush_alert
    \/ collect
    \/ \E i \in 1..BatchSize : item_response(i)
    \/ \E i \in 1..BatchSize : item_update(i)
    \/ finish_batch

SpecBatch == InitBatch /\ [][NextBatch]_vars

\* the operations of the worker's two clients against servers and
\* connections that come and go
NextReconnect ==
    \/ connection_lost
    \/ server_outage
    \/ db_operation
    \/ queue_operation

SpecReconnect == Init /\ [][NextReconnect]_vars

\* the two processors of mode `both` on their shared clients, each from its
\* start to the end of its queue check, with the producers of "alerts_queue"
\* beside them
NextBoth ==
    \/ publish_alert
    \/ publish_test_alert
    \/ \E p \in Processors : connect_services(p)
    \/ \E p \in Processors : start_consumer(p)

SpecBoth == InitMain /\ [][NextBoth]_vars

\* two worker processes on the one alert queue, with its producer
NextWorkers ==
    \/ publish_alert
    \/ \E w \in Workers : worker_consume(w)

SpecWorkers == Init /\ [][NextWorkers]_vars

\* test_ingestion_flow: the worker's handlers called one after the other on
\* a table that may hold the rows of an earlier run
InitFlow ==
    /\ InitCommon
    /\ norm_in = NoInput
    /\ pc = [alert |-> "poll", embed |-> "poll"]
    /\ strays = {}
    /\ rows \in {<<>>, <<NewRow("a1", AlertPayload(FlowAlert(1)))>>}
    /\ uniqueKey \in BOOLEAN

NextFlow ==
    \/ flow_process_alert
    \/ flow_process_embedding_task
    \/ process_embedding_task

SpecFlow == InitFlow /\ [][NextFlow]_vars

\* the batch worker fed more alerts than one batch holds
NextBarrier ==
    \/ lpush_valid_alert
    \/ collect
    \/ \E i \in 1..BatchSize : item_response(i)
    \/ \E i \in 1..BatchSize : item_update(i)
    \/ finish_batch

SpecBarrier == InitBatch /\ [][NextBarrier]_vars

\* the batch worker on a queue that holds texts that are no JSON among its
\* alerts
NextDecode ==
    \/ lpush_raw
    \/ collect
    \/ \E i \in 1..BatchSize : item_response(i)
    \/ \E i \in 1..BatchSize : item_update(i)
    \/ finish_batch

SpecDecode == InitBatch /\ [][NextDecode]_vars

\* the batch worker with a shutdown request arriving at any moment
NextShutdown ==
    \/ NextBatch
    \/ process_queue_cancelled

SpecShutdown == InitBatch /\ [][NextShutdown]_vars

\* ------------------------------------------------------------------ claims
RowsOf(alert_id) == {i \in DOMAIN rows : rows[i].alert_uid = alert_id}

\* the ingest worker has nothing queued and nothing in flight
Quiescent ==
    /\ alerts_queue = <<>>
    /\ embedding_queue = <<>>
    /\ pc.alert = "poll"
    /\ pc.embed = "poll"

\* a row in a terminal status: embedded, failed, or kept without embedding
\* because the alert has no content
TerminalRow(r) ==
    r.embedding_status \in {"completed", "failed"} \/ r.description = ""

\* C1: at-least-once delivery.  Once the ingest worker is quiescent, every
\* alert whose publish call returned has a row in the table, and the row is
\* in a terminal status.
C1_AtLeastOnce ==
    Quiescent =>
        \A n \in published :
            \E i \in RowsOf(sent[n].id) : TerminalRow(rows[i])

\* C2: idempotent insert.  However many messages carry one id, the table
\* holds at most one row for it, and no insert of an id that is already
\* stored is reported as a failure of the item.
C2_IdempotentInsert ==
    /\ \A alert_id \in Ids : Cardinality(RowsOf(alert_id)) <= 1
    /\ \A n \in Serials : "insert_conflict" \notin events[n]

\* C3: embedding dimension invariant.  Every embedding held in the table has
\* exactly the configured dimension.
C3_StoredDimension ==
    \A i \in DOMAIN rows :
        rows[i].embedding # NoVec => rows[i].embedding = EMBEDDING_DIM

\* C4: empty-content skip.  An alert whose content is the empty string causes
\* no call to the embedding provider and is not failed.
C4_EmptyContentSkip ==
    \A n \in Serials :
        (sent[n] # NoItem /\ sent[n].content = "") =>
            /\ calls[n] = 0
            /\ events[n] \cap {"embed_failed", "update_failed"} = {}

\* C5: retry-then-succeed.  An item is given up on a transient provider error
\* only when the third call failed too: with two failures and a success the
\* item gets its three calls.
C5_RetryThenSucceed ==
    \A n \in Serials :
        "transient_giveup" \in events[n] => calls[n] >= MAX_ATTEMPTS

\* an alert that is no JSON object or lacks its content
Malformed(alert_data) ==
    alert_data.json # "object" \/ alert_data.content = Absent

\* C6: batch isolation.  A malformed item in the batch does not stop the
\* worker: the worker keeps running, and every alert popped with the
\* malformed one is handed to its own coroutine.
C6_BatchIsolation ==
    (\E k \in DOMAIN alerts : Malformed(alerts[k])) =>
        /\ bpc # "crashed"
        /\ bpc = "gather" => Len(tasks) = Len(alerts)

\* C7: status monotonicity.  No step changes the status of a row that is
\* embedded or failed.
C7_StatusMonotone ==
    [][\A i \in DOMAIN rows :
          rows[i].embedding_status \in {"completed", "failed"} =>
              rows'[i].embedding_status = rows[i].embedding_status]_vars

\* coroutine i of the batch is between its provider call and its store write
InFlight(i) == tasks[i].stage \in {"post", "db"}

\* C8: no record is embedded twice concurrently.  No two embed+persist
\* executions in progress are for the same alert id.
C8_NoConcurrentEmbedding ==
    \A i, j \in DOMAIN tasks :
        (i # j /\ InFlight(i) /\ InFlight(j)) =>
            tasks[i].alert.id # tasks[j].alert.id

\* C9: every popped item reaches a terminal state.  Once the ingest worker is
\* quiescent, every alert it popped is embedded, failed or skipped for lack
\* of content.
C9_PoppedReachTerminal ==
    Quiescent =>
        \A n \in Serials :
            events[n] # {} =>
                events[n] \cap {"embedded", "no_content", "insert_failed",
                                "mark_failed"} # {}

\* C10: failure policy.  For every item with a failed step (insert, embed,
\* update of the embedding) mark_embedding_failed was called for its id, and
\* a row of its id shows the status failed.
C10_FailurePolicy ==
    \A n \in Serials :
        events[n] \cap {"insert_failed", "embed_failed", "update_failed"} # {} =>
            /\ "mark_failed" \in events[n]
            /\ \E i \in RowsOf(sent[n].id) : rows[i].embedding_status = "failed"

Called == {n \in Serials : runs[n] # <<>>}

\* C12: one publish_alert call makes at most 3 attempts; every attempt but the
\* last one failed (a failed attempt is retried, a returning one ends the
\* call); the call fails only after a third failed attempt, and it hands an
\* id back to the caller exactly when its last attempt returned.
C12_PublishAttempts ==
    \A n \in Called :
        /\ Len(runs[n]) <= 3
        /\ \A i \in 1..(Len(runs[n]) - 1) : runs[n][i] # "ok"
        /\ Last(runs[n]) # "ok" => Len(runs[n]) = 3 /\ n \notin published
        /\ Last(runs[n]) = "ok" => n \in published

\* C12 witness: a call whose three attempts all failed and that returned no id
C12_ThirdAttemptFailed ==
    \E n \in Called :
        /\ Len(runs[n]) = 3
        /\ \A i \in 1..3 : runs[n][i] # "ok"
        /\ n \notin published

\* C13: the queue check repairs exactly the wrong-typed keys. Every call of
\* the check, by RedisQueue or by RedisQueueTester, returns without failing,
\* leaves the key absent or a list, and deletes the key exactly when it held
\* a value that is no list.
C13_QueueShape ==
    checked.client # "none" =>
        /\ ~checked.raised
        /\ checked.after \in {"none", "list"}
        /\ checked.deleted <=> checked.before \notin {"none", "list"}

\* C14: every TiDBConnection operation that finds its connection dead calls
\* connect() once and, when that succeeded, executes its statement once; an
\* operation whose write did not happen returns False to its caller.
C14_PersistenceResult ==
    dbcall.op # "none" =>
        /\ Dead(dbcall.fault) => dbcall.connects = 1
        /\ ensure_connection(dbcall.fault) => dbcall.executions = 1
        /\ dbcall.failed => dbcall.result = "False"

\* the text a row stores
RowText(r) == {r.alert_uid, r.description, r.embedding_status, r.status}

\* C15: a mark_embedding_failed(id, reason) whose UPDATE was executed leaves
\* every row in the table, sets the status of the rows of id to failed and
\* stores the reason with them, and changes neither their content nor their
\* severity.
C15_MarkFailedReason ==
    [][dbcall'.op = "mark_embedding_failed" /\ ~dbcall'.failed
       /\ pc.embed = "generate_embedding" /\ pc'.embed = "poll"
       => /\ Len(rows') = Len(rows)
          /\ \A i \in DOMAIN rows :
                rows[i].alert_uid = dbcall'.alert_id =>
                  /\ rows'[i].embedding_status = "failed"
                  /\ dbcall'.error_msg \in RowText(rows'[i])
                  /\ rows'[i].description = rows[i].description
                  /\ rows'[i].severity = rows[i].severity]_vars

\* the messages of one publish call that wait for the embedding provider: its
\* alerts on "alerts_queue" or in process_alert, its tasks on "embedding_queue"
Count(q, n) == Cardinality({i \in DOMAIN q : q[i].n = n})
Pending(n) ==
    Count(alerts_queue, n) + Count(embedding_queue, n)
        + (IF cur.alert.n = n THEN 1 ELSE 0)

\* the worker counted the item as failed
Failed(n) == "mark_failed" \in events[n] \/ "insert_failed" \in events[n]

\* C16: a failed item is dead-lettered. From the step in which the worker
\* fails an item on, the worker puts no message of that item on a queue that
\* was not waiting there already, and it calls the provider for the item
\* only by using up a copy that its producer had pushed: messages waiting
\* plus provider calls made never grow.
C16_DeadLetter ==
    [][\A n \in Serials :
         Failed(n)' => Pending(n)' + calls'[n] <= Pending(n) + calls[n]]_vars

\* C16 witness: an item that went to the provider once and failed, with no
\* message of it left anywhere, while the worker went on to embed another
C16_FailedAndLeftAlone ==
    \E n, o \in Serials :
        /\ n # o
        /\ "mark_failed" \in events[n]
        /\ calls[n] = 1
        /\ Pending(n) = 0 /\ cur.embed.n # n
        /\ "embedded" \in events[o]

\* both processors connected and have come to rest
AtRest == pc.alert = "stopped" /\ pc.embed = "stopped"

\* C17: happy path. An alert with an id, a non-empty content and a severity
\* that was published at the first attempt, on a broker whose queue keys are
\* well-typed and beside a worker whose connections all succeeded, has, once
\* the worker is at rest, a row with its id whose status is embedded
\* ('completed' in the table), whose embedding has EMBEDDING_DIM entries and
\* whose severity is the one published.
C17_HappyPath ==
    \A n \in Called :
        /\ runs[n] = <<"ok">>
        /\ HasContent(sent[n])
        /\ strays = {}
        /\ AtRest
        => \E i \in DOMAIN rows :
              /\ rows[i].alert_uid = sent[n].id
              /\ rows[i].embedding_status = "completed"
              /\ rows[i].embedding = EMBEDDING_DIM
              /\ rows[i].severity = sent[n].severity

\* C18: normalisation accepts the aliased shapes. The alert type is
\* alert_type or, when that is absent, type; latitude and longitude are the
\* flat field or, when that is absent, the field of coordinates, whatever
\* the value (0 included); an alert without id gets a generated id and is
\* rejected by neither worker.
C18_NormalizeAliases ==
    /\ norm_out.by # "none" => ~norm_out.rejected
    /\ norm_out.by = "IngestWorker" =>
          /\ norm_out.alert_id # Absent
          /\ norm_out.alert_type =
                IF norm_in.alert_type # Absent THEN norm_in.alert_type
                                               ELSE norm_in.type
          /\ norm_out.latitude =
                IF norm_in.latitude # Absent
                THEN norm_in.latitude
                ELSE CoordinateOf(norm_in, "latitude")
          /\ norm_out.longitude =
                IF norm_in.longitude # Absent
                THEN norm_in.longitude
                ELSE CoordinateOf(norm_in, "longitude")

\* the publish calls of which process_alert has handled a message
Handled == {popped[i] : i \in DOMAIN popped}

\* C19: normalisation fails exactly when content is absent. An alert without
\* a content key that process_alert has handled was failed and not stored;
\* an alert whose content is the empty string is failed by nothing but the
\* store.
C19_NormalizationError ==
    \A n \in Handled :
        /\ sent[n].content = Absent =>
              Failed(n) /\ "inserted" \notin events[n]
        /\ sent[n].content = "" /\ Failed(n) =>
              "insert_failed" \in events[n] /\ "mark_failed" \notin events[n]

\* C20: whitespace short-circuit. For an alert whose content is empty or only
\* whitespace the ingest worker makes no call to the embedding provider and
\* does not mark the alert failed.
C20_WhitespaceSkip ==
    \A n \in Called :
        Blank(sent[n].content) =>
            calls[n] = 0 /\ "mark_failed" \notin events[n]

\* C21: embedding retry policy. One get_embedding invocation makes at most 3
\* provider calls; a further call is made only after a transport error or a
\* timeout; the call that got a non-200 response was the last one of its
\* invocation, and its item was failed and never given a vector.
C21_EmbedRetryPolicy ==
    \A n \in Serials :
        /\ posts[n].count <= 3 /\ calls[n] <= 3
        /\ posts[n].retried_after \subseteq {"transient"}
        /\ posts[n].last = "refused" =>
              /\ calls[n] = posts[n].count
              /\ "embed_failed" \in events[n]
              /\ "embedded" \notin events[n]
              /\ \A i \in DOMAIN tasks :
                    tasks[i].alert.n = n => tasks[i].embedding = NoVec

\* C21 witness: one invocation went to its third call, another one ended at
\* its first call with a non-200 response
C21_ThirdCallAndRefusal ==
    \E n, o \in Serials :
        /\ posts[n].count = 3
        /\ posts[o].count = 1 /\ posts[o].last = "refused"

\* C22: graceful shutdown. When the batch worker has closed its connection
\* after a shutdown request, every alert it had popped in the current cycle
\* has been handed to process_alert and has finished there.
C22_GracefulShutdown ==
    bpc = "closed" =>
        /\ Len(tasks) = Len(alerts)
        /\ \A i \in DOMAIN tasks : tasks[i].stage = "done"

\* C23: a worker process whose queue connection failed on all its attempts
\* exits with a non-zero status.
C23_ExitNonZero ==
    /\ exit_status # "running"
    /\ pc.alert = "queue_down" \/ pc.embed = "queue_down"
    => exit_status # "0"

C25_HandOff ==
    [][/\ pc.alert = "publish_embedding_task" /\ pc'.alert = "poll" =>
            embedding_queue' = lpush(embedding_queue, EmbeddingTaskData(cur.alert))
       /\ pc.alert = "poll" /\ alerts_queue' = Front(alerts_queue)
            /\ alerts_queue # <<>> /\ popped' # popped =>
            embedding_queue' = embedding_queue]_vars

\* C26: stats counting. When the batch worker is between two cycles with its
\* queue empty, its failed counter equals the number of alerts whose
\* embedding or update failed, and the embeddings_generated counter the
\* number of alerts that were embedded.
C26_StatsCounting ==
    bpc = "collect" /\ alerts = <<>> /\ disaster_alerts = <<>> =>
        /\ bstats.failed =
              Cardinality({n \in Serials :
                  events[n] \cap {"embed_failed", "update_failed"} # {}})
        /\ disaster_stats.embeddings_generated =
              Cardinality({n \in Serials : "embedded" \in events[n]})

\* C27: process_queue returns once the queue is drained. After alerts were
\* processed and counted in alerts_processed, the cycle that polls the empty
\* queue to its end makes process_queue return to its caller.
C27_ReturnsWhenDrained ==
    [][/\ bpc = "collect" /\ disaster_stats.alerts_processed > 0
       /\ disaster_alerts = <<>> /\ alerts = <<>>
       /\ polls = BatchSize - 1 /\ polls' = 0
       => bpc' = "returned"]_vars

\* C28: publish/consume round trip. A call of publish_alert that returns has
\* put exactly one message on the queue, the alert it was given, and a
\* consume takes exactly one message off, the oldest, with the fields it
\* was sent with: a publish followed by a consume restores the length of
\* the queue.
C28_RoundTrip ==
    [][/\ \A n \in Serials :
            runs'[n] # runs[n] /\ n \in published' =>
                alerts_queue' = lpush(alerts_queue, sent'[n])
       /\ popped' # popped =>
            alerts_queue = Append(alerts_queue', sent[Last(popped')])]_vars

\* C29: batch barrier and bounded concurrency. An alert is popped only while
\* the worker collects, with no coroutine of an earlier batch unfinished and
\* never as more than the batchSize-th of its cycle; a cycle ends only when
\* every coroutine of its batch has finished; and no more than batchSize
\* coroutines are in progress.
C29_BatchBarrier ==
    [][/\ Len(disaster_alerts') < Len(disaster_alerts) =>
            /\ bpc = "collect"
            /\ \A i \in DOMAIN tasks : tasks[i].stage = "done"
            /\ Len(alerts') <= BatchSize
       /\ bpc = "gather" /\ bpc' = "collect" =>
            \A i \in DOMAIN tasks : tasks[i].stage = "done"
       /\ Cardinality({i \in DOMAIN tasks' : InFlight(i)'}) <= BatchSize]_vars

\* a full batch is in progress while a further alert waits on the queue
C29_FullBatchAndWaiting ==
    /\ bpc = "gather"
    /\ Len(tasks) = BatchSize
    /\ \A i \in DOMAIN tasks : InFlight(i)
    /\ disaster_alerts # <<>>

\* C30: loop resilience. A step of the consume loop, also one in which the
\* pop or the handling of the popped message raises, leaves the worker in
\* its loop, collecting or processing a batch.
C30_LoopResilience ==
    [][bpc = "collect" => bpc' \in {"collect", "gather"}]_vars

\* C31: a pop that times out on the empty queue is the no-work case. The
\* poll of the batch worker that finds its queue empty and raises nothing
\* leaves the queue, the collected alerts, the store and every counter as
\* they were, and when the cycle has collected nothing the worker goes on
\* polling without a provider call.
C31_EmptyPoll ==
    [][bpc = "collect" /\ disaster_alerts = <<>> /\ polls' # polls =>
            /\ UNCHANGED <<disaster_alerts, alerts, rows, bstats,
                           disaster_stats, popped, stats, stats_queue>>
            /\ alerts = <<>> => bpc' = "collect" /\ UNCHANGED <<calls, events, tasks>>
      ]_vars

\* the first poll of a cycle timed out and the worker polls on
C31_PolledEmpty ==
    bpc = "collect" /\ polls = 1 /\ alerts = <<>> /\ disaster_alerts = <<>>

\* C32: stats increments are atomic. The processed counter of the batch
\* worker equals the number of alerts for which the increment was issued,
\* and the embeddings_generated field of the stats hash the number of
\* HINCRBY commands that were answered, however the coroutines of a batch
\* interleave.
C32_NoLostIncrement ==
    /\ bstats.processed =
          Cardinality({n \in Serials : "embedded" \in events[n]})
    /\ disaster_stats.embeddings_generated =
          bstats.processed
            - Cardinality({n \in Serials : "embedded" \in events[n]
                                           /\ "stats_failed" \in events[n]})

\* two coroutines of one batch have both incremented the counter
C32_TwoInOneBatch ==
    /\ bpc = "gather"
    /\ Len(tasks) = 2
    /\ \A i \in DOMAIN tasks : tasks[i].result = "True"
    /\ bstats.processed = 2

\* C33: the text sent to the provider is the alert's content. For every
\* alert with a content that is not blank that the batch worker has handed to
\* process_alert, the text process_alert takes for the provider is that
\* content, and the alert is not put aside as having no text.
C33_TextIsContent ==
    \A i \in DOMAIN tasks :
        HasContent(tasks[i].alert) /\ ~Blank(tasks[i].alert.content) =>
            /\ BatchContent(tasks[i].alert) = tasks[i].alert.content
            /\ "no_content" \notin events[tasks[i].alert.n]

\* C34: one publish, one message. While nothing is consumed, every call of
\* publish_alert that handed an id back has exactly one message on the alert
\* queue, however many of its attempts failed after their LPUSH.
C34_OneMessagePerPublish ==
    \A n \in Called :
        n \in published => Count(alerts_queue, n) = 1

C36_VectorIffEmbedded ==
    \A i \in DOMAIN rows :
        rows[i].embedding # NoVec <=> rows[i].embedding_status = "completed"

\* C37: the embedded counter counts updated rows. A step that increments the
\* embedded counter for an embedding task has stored the vector in a row of
\* the task's alert id.
C37_EmbeddedMeansUpdated ==
    [][stats'.embedded # stats.embedded =>
          \E i \in DOMAIN rows' :
              /\ rows'[i].alert_uid = cur.embed.alert_id
              /\ rows'[i].embedding # NoVec]_vars

\* C38: shared connections outlive a processor that ends. While a processor
\* of mode `both` is connected and about to consume, the database
\* connection and the queue client it shares with the other processor have
\* not been closed.
C38_SharedConnectionsStayOpen ==
    \A p \in Processors :
        pc[p] \in {"connected", "poll"} =>
            link.db # "closed" /\ link.redis # "closed"

\* the number of times worker process w was handed a message of alert n
TakenBy(w, n) == Cardinality({i \in DOMAIN taken[w] : taken[w][i] = n})

\* C39: exclusive delivery. With two worker processes popping from the one
\* alert queue, every message pushed for an alert is either still waiting or
\* was handed to one worker, once: messages waiting plus messages handed out
\* equal the messages pushed, for every alert.
C39_ExclusiveDelivery ==
    \A n \in Serials :
        Count(alerts_queue, n) + TakenBy("w1", n) + TakenBy("w2", n)
            = Pushes(runs[n])

\* each of the two worker processes was handed a message
C39_BothWorkersServed ==
    /\ taken["w1"] # <<>>
    /\ taken["w2"] # <<>>
    /\ alerts_queue = <<>>

\* C40: a message that is no valid JSON is dropped and nothing else. The
\* pop of such a message takes it off the queue, adds nothing to the batch,
\* writes nothing to the store and leaves the worker in its loop; no
\* coroutine and no provider call is ever made for it.
C40_InvalidJsonDropped ==
    [][/\ Len(disaster_alerts') < Len(disaster_alerts)
            /\ Last(disaster_alerts).json = "invalid" =>
                /\ disaster_alerts' = Front(disaster_alerts)
                /\ alerts' = alerts
                /\ rows' = rows
                /\ bpc' \in {"collect", "gather"}
       /\ \A i \in DOMAIN tasks' : tasks'[i].alert.json # "invalid"
       /\ \A n \in Serials : sent'[n].n = n /\ sent'[n].json = "invalid" =>
                calls'[n] = 0 /\ events'[n] = {}]_vars

\* an alert that waited behind a text that is no JSON was embedded
C40_ProcessedBehindInvalid ==
    \E n, o \in Serials :
        /\ n < o
        /\ sent[n].n = n /\ sent[n].json = "invalid"
        /\ "embedded" \in events[o]

====
